---- MODULE Spec2Model ----
(***************************************************************************)
(* Event-stream Receiver of aws-smithy-http (event_stream/output.rs).      *)
(*                                                                         *)
(* The Receiver pulls byte chunks from an SdkBody, accumulates them in a   *)
(* RecvBuf, decodes self-delimiting frames from the accumulated bytes and  *)
(* hands each frame to the unmarshaller.  recv() and try_recv_initial()    *)
(* are async: a call runs until it returns or until it suspends at the     *)
(* single await of buffer_next_chunk (body.data().await).  Every action    *)
(* below is one such run-to-suspension step.                               *)
(***************************************************************************)
EXTENDS Integers, Sequences, FiniteSets, TLC

\* ------------------------------------------------------------------ bounds
MaxFrames == 2      \* complete frames the chunk source sends
MaxChunk == 8       \* bytes in one chunk
MaxEmpty == 1       \* zero-length chunks the chunk source delivers
MaxErrs == 1        \* pulls the chunk source fails
MaxCalls == 3       \* recv()/try_recv_initial() calls that return
LiveCalls == 1      \* calls that return in the runs checked for termination

VARIABLES
    frames,            \* the complete frames the chunk source sends, in order
    tail,              \* bytes the chunk source sends after the last complete frame
    sent,              \* number of wire bytes the chunk source has delivered
    errs,              \* number of pulls the chunk source has failed
    empties,           \* number of zero-length chunks delivered
    midSplit,          \* some chunk ended strictly inside a frame
    buffer,            \* Receiver.buffer : RecvBuf
    buffered_message,  \* Receiver.buffered_message : Option<Message>
    pc,                \* "idle", or the call suspended at body.data().await
    results            \* what the calls that returned have returned, in order

vars == <<frames, tail, sent, errs, empties, midSplit, buffer, buffered_message, pc,
          results>>

\* ------------------------------------------------------------ frames, bytes
\* The frames the chunk source sends: whether the frame has an :event-type
\* header ("initial" when its value is "initial-response"), and what the
\* unmarshaller makes of the frame.
FrameKinds ==
    {<<"none", "event">>, <<"none", "error">>, <<"none", "bad">>,
     <<"initial", "event">>, <<"other", "event">>}

\* Option<Message>::None
NoMsg == [hdr |-> "-", kind |-> "-", id |-> 0]

Min(a, b) == IF a < b THEN a ELSE b

\* Message::write_to: a length byte, an optional :event-type header byte,
\* and two payload bytes (the unmarshalling outcome and the payload itself).
Encode(m) ==
    LET h == IF m.hdr = "initial" THEN 1 ELSE 2
        k == CASE m.kind = "event" -> 1 [] m.kind = "error" -> 2 [] OTHER -> 3
    IN  IF m.hdr = "none" THEN <<3, k, m.id>> ELSE <<4, h, k, m.id>>

RECURSIVE EncodeAll(_)
EncodeAll(ms) == IF ms = <<>> THEN <<>> ELSE Encode(Head(ms)) \o EncodeAll(Tail(ms))

\* Every byte the chunk source will deliver before end-of-stream.
Wire == EncodeAll(frames) \o tail

\* The chunk boundary after n wire bytes falls between two frames or at the
\* end of the wire.
RECURSIVE OnBoundary(_, _)
OnBoundary(ms, n) ==
    IF n = 0 THEN TRUE
    ELSE IF ms = <<>> THEN n = Len(tail)
    ELSE IF Len(Encode(Head(ms))) > n THEN FALSE
    ELSE OnBoundary(Tail(ms), n - Len(Encode(Head(ms))))

\* Message::read_from on the bytes of one frame.
ParseFrame(bs) ==
    LET kindOf(b) == CASE b = 1 -> "event" [] b = 2 -> "error" [] OTHER -> "bad"
    IN  IF bs[1] = 3
        THEN [hdr |-> "none", kind |-> kindOf(bs[2]), id |-> bs[3]]
        ELSE [hdr |-> IF bs[2] = 1 THEN "initial" ELSE "other",
              kind |-> kindOf(bs[3]), id |-> bs[4]]

\* MessageFrameDecoder::decode_frame on the unread bytes.  `consumed` says
\* whether a rejected parse consumed the bytes it looked at.
decode_frame(bs, consumed) ==
    IF bs = <<>> THEN [out |-> "Incomplete", msg |-> NoMsg, rest |-> bs]
    ELSE IF bs[1] \notin {3, 4}
    THEN [out |-> "Err", msg |-> NoMsg, rest |-> IF consumed THEN <<>> ELSE bs]
    ELSE IF Len(bs) < bs[1]
    THEN [out |-> "Incomplete", msg |-> NoMsg, rest |-> bs]
    ELSE [out |-> "Complete", msg |-> ParseFrame(SubSeq(bs, 1, bs[1])),
          rest |-> SubSeq(bs, bs[1] + 1, Len(bs))]

\* UnmarshallMessage::unmarshall of the unmarshaller the Receiver was built with.
UnmarshallerOutcome(m) ==
    CASE m.kind = "event" -> "Event"
      [] m.kind = "error" -> "Error"
      [] OTHER -> "Err"

\* ------------------------------------------------------------------ RecvBuf
EmptyBuf == [tag |-> "Empty", data |-> <<>>]
PanicBuf == [tag |-> "Panic", data |-> <<>>]

\* has_data that looks at the buffered bytes only once the stream has ended
has_data_eos_only(b) == b.tag = "EosPartial" /\ Len(b.data) > 0

\* has_data that takes a buffer nothing was written to for one with data
has_data_empty_true(b) ==
    CASE b.tag = "Empty" -> TRUE
      [] OTHER -> Len(b.data) > 0

has_data(b) ==
    CASE b.tag = "Empty" -> FALSE
      [] OTHER -> Len(b.data) > 0

is_eos(b) == b.tag = "EosPartial"

\* buffered() panics on Empty
buffered_panics(b) == b.tag = "Empty"

\* with_partial that takes a zero-length chunk for the end of the stream
with_partial_empty_ends(b, partial) ==
    CASE b.tag \in {"Empty", "Partial"} ->
           [tag |-> IF partial = <<>> THEN "EosPartial" ELSE "Partial",
            data |-> b.data \o partial]
      [] OTHER -> PanicBuf

\* with_partial that replaces the buffered bytes instead of extending them
with_partial_replacing(b, partial) ==
    CASE b.tag \in {"Empty", "Partial"} -> [tag |-> "Partial", data |-> partial]
      [] OTHER -> PanicBuf

with_partial(b, partial) ==
    CASE b.tag = "Empty" -> [tag |-> "Partial", data |-> partial]
      [] b.tag = "Partial" -> [tag |-> "Partial", data |-> b.data \o partial]
      [] OTHER -> PanicBuf

ended(b) ==
    CASE b.tag = "Empty" -> [tag |-> "EosPartial", data |-> <<>>]
      [] b.tag = "Partial" -> [tag |-> "EosPartial", data |-> b.data]
      [] OTHER -> PanicBuf

\* --------------------------------------------------------- results of calls
NoRaw == [v |-> "-", msg |-> NoMsg, bytes |-> <<>>]
RawDecoded(m) == [v |-> "Decoded", msg |-> m, bytes |-> <<>>]
RawInvalidNone == [v |-> "InvalidNone", msg |-> NoMsg, bytes |-> <<>>]
\* impl From<&mut SegmentedBuf<Bytes>> for RawMessage
RawInvalidSome(bs) == [v |-> "InvalidSome", msg |-> NoMsg, bytes |-> bs]

OkNone == [t |-> "None", err |-> "-", ev |-> 0, raw |-> NoRaw]
OkEvent(m) == [t |-> "Event", err |-> "-", ev |-> m.id, raw |-> NoRaw]
OkMessage(m) == [t |-> "Message", err |-> "-", ev |-> 0, raw |-> RawDecoded(m)]
ServiceError(m) == [t |-> "ServiceError", err |-> "Modeled", ev |-> 0, raw |-> RawDecoded(m)]
ResponseError(e, raw) == [t |-> "ResponseError", err |-> e, ev |-> 0, raw |-> raw]
DispatchFailure == [t |-> "DispatchFailure", err |-> "io", ev |-> 0, raw |-> NoRaw]

\* unmarshall that reports a modeled error as a response error
unmarshall_error_as_response(m) ==
    CASE UnmarshallerOutcome(m) = "Event" -> OkEvent(m)
      [] OTHER -> ResponseError("Unmarshall", RawDecoded(m))

\* ----------------------------------------------------------------- Receiver
unmarshall(m) ==
    CASE UnmarshallerOutcome(m) = "Event" -> OkEvent(m)
      [] UnmarshallerOutcome(m) = "Error" -> ServiceError(m)
      [] OTHER -> ResponseError("Unmarshall", RawDecoded(m))

\* buffer_next_chunk that leaves the Empty of mem::replace in place when the
\* chunk is zero-length
buffer_next_chunk_leaving_empty(b, isChunk, chunk) ==
    IF isChunk
    THEN IF chunk = <<>> THEN EmptyBuf ELSE with_partial(b, chunk)
    ELSE ended(b)

\* buffer_next_chunk after body.data() answered with a chunk or with None:
\* mem::replace takes the buffer, with_partial/ended gives the new one.
buffer_next_chunk(b, isChunk, chunk) ==
    IF isChunk THEN with_partial(b, chunk) ELSE ended(b)

\* next_message that starts over with an empty buffer after a clean end
next_message_end_resetting(b) ==
    IF has_data(b)
    THEN [k |-> "err", buffer |-> [b EXCEPT !.data = <<>>], msg |-> NoMsg,
          res |-> ResponseError("UnexpectedEndOfStream", RawInvalidSome(b.data))]
    ELSE [k |-> "none", buffer |-> EmptyBuf, msg |-> NoMsg, res |-> OkNone]

\* next_message that ends with Ok(None) whatever is left in the buffer
next_message_end_unchecked(b) ==
    [k |-> "none", buffer |-> b, msg |-> NoMsg, res |-> OkNone]

\* next_message that copies the unread bytes into the error and leaves them
\* in the buffer
next_message_end_not_draining(b) ==
    IF has_data(b)
    THEN [k |-> "err", buffer |-> b, msg |-> NoMsg,
          res |-> ResponseError("UnexpectedEndOfStream", RawInvalidSome(b.data))]
    ELSE [k |-> "none", buffer |-> b, msg |-> NoMsg, res |-> OkNone]

\* next_message after its loop: truncation or clean end of stream.
next_message_end(b) ==
    IF has_data(b)
    THEN [k |-> "err", buffer |-> [b EXCEPT !.data = <<>>], msg |-> NoMsg,
          res |-> ResponseError("UnexpectedEndOfStream", RawInvalidSome(b.data))]
    ELSE [k |-> "none", buffer |-> b, msg |-> NoMsg, res |-> OkNone]

\* next_message from the head of its loop up to its return or to the await
\* in buffer_next_chunk.
next_message(b, consumed) ==
    IF is_eos(b) THEN next_message_end(b)
    ELSE IF has_data(b)
    THEN IF buffered_panics(b)
         THEN [k |-> "panic", buffer |-> PanicBuf, msg |-> NoMsg, res |-> OkNone]
         ELSE LET d == decode_frame(b.data, consumed)
              IN  CASE d.out = "Complete" ->
                         [k |-> "msg", buffer |-> [b EXCEPT !.data = d.rest],
                          msg |-> d.msg, res |-> OkNone]
                    [] d.out = "Err" ->
                         [k |-> "err", buffer |-> [b EXCEPT !.data = d.rest],
                          msg |-> NoMsg,
                          res |-> ResponseError("Decode", RawInvalidNone)]
                    [] OTHER ->
                         [k |-> "await", buffer |-> b, msg |-> NoMsg, res |-> OkNone]
    ELSE [k |-> "await", buffer |-> b, msg |-> NoMsg, res |-> OkNone]

\* try_recv_initial that also keeps the initial response as the pending frame
try_recv_initial_keeping_initial(m, pending) ==
    IF m.hdr # "none"
    THEN IF m.hdr = "initial"
         THEN [res |-> OkMessage(m), pending |-> m]
         ELSE [res |-> OkNone, pending |-> pending]
    ELSE [res |-> OkNone, pending |-> m]

\* try_recv_initial that forgets to buffer the frame it will not return
try_recv_initial_not_buffering(m, pending) ==
    IF m.hdr = "initial"
    THEN [res |-> OkMessage(m), pending |-> pending]
    ELSE [res |-> OkNone, pending |-> pending]

\* try_recv_initial once next_message gave it a message: what it returns and
\* what it leaves in buffered_message.
try_recv_initial_message(m, pending) ==
    IF m.hdr # "none"
    THEN IF m.hdr = "initial"
         THEN [res |-> OkMessage(m), pending |-> pending]
         ELSE [res |-> OkNone, pending |-> pending]
    ELSE [res |-> OkNone, pending |-> m]

\* recv that gives up the buffered bytes when the frame is a modeled error
recv_message_error_fatal(m, b) ==
    [res |-> unmarshall(m),
     buffer |-> IF UnmarshallerOutcome(m) = "Error" THEN [b EXCEPT !.data = <<>>] ELSE b]

\* recv once next_message gave it a message: what it returns and the buffer
\* it leaves.
recv_message(m, b) == [res |-> unmarshall(m), buffer |-> b]

Entry(op, res) == [op |-> op, res |-> res]

\* The call `op` returns `res`.
Return(op, res) ==
    /\ results' = Append(results, Entry(op, res))
    /\ pc' = "idle"

\* The call `op` runs next_message on buffer b (at its start, or resumed
\* after a pull) until it returns or awaits the next chunk.
RunCall(op, b, consumed) ==
    LET s == next_message(b, consumed)
    IN  CASE s.k = "await" ->
               /\ pc' = op
               /\ buffer' = s.buffer
               /\ UNCHANGED <<results, buffered_message>>
          [] s.k = "panic" ->
               /\ pc' = "panicked"
               /\ buffer' = s.buffer
               /\ UNCHANGED <<results, buffered_message>>
          [] s.k = "msg" /\ op = "recv" ->
               LET r == recv_message(s.msg, s.buffer)
               IN  /\ Return(op, r.res)
                   /\ buffer' = r.buffer
                   /\ UNCHANGED buffered_message
          [] s.k = "msg" /\ op = "peek" ->
               LET r == try_recv_initial_message(s.msg, buffered_message)
               IN  /\ Return(op, r.res)
                   /\ buffer' = s.buffer
                   /\ buffered_message' = r.pending
          [] OTHER ->
               /\ Return(op, s.res)
               /\ buffer' = s.buffer
               /\ UNCHANGED buffered_message

\* recv() that reads the pending peeked frame without taking it
Recv_keeping_pending ==
    /\ pc = "idle"
    /\ Len(results) < MaxCalls
    /\ IF buffered_message # NoMsg
       THEN /\ Return("recv", unmarshall(buffered_message))
            /\ UNCHANGED <<buffer, buffered_message>>
       ELSE \E consumed \in BOOLEAN : RunCall("recv", buffer, consumed)
    /\ UNCHANGED <<frames, tail, sent, errs, empties, midSplit>>

\* ------------------------------------------------------------------ actions
Recv ==
    /\ pc = "idle"
    /\ Len(results) < MaxCalls
    /\ IF buffered_message # NoMsg
       THEN /\ Return("recv", unmarshall(buffered_message))
            /\ buffered_message' = NoMsg
            /\ UNCHANGED buffer
       ELSE \E consumed \in BOOLEAN : RunCall("recv", buffer, consumed)
    /\ UNCHANGED <<frames, tail, sent, errs, empties, midSplit>>

TryRecvInitial ==
    /\ pc = "idle"
    /\ Len(results) < MaxCalls
    /\ \E consumed \in BOOLEAN : RunCall("peek", buffer, consumed)
    /\ UNCHANGED <<frames, tail, sent, errs, empties, midSplit>>

\* body.data() answers Some(Ok(chunk)).
PullChunk ==
    /\ pc \in {"recv", "peek"}
    /\ \E n \in 0..Min(MaxChunk, Len(Wire) - sent) :
          /\ n = 0 => empties < MaxEmpty
          /\ empties' = IF n = 0 THEN empties + 1 ELSE empties
          /\ sent' = sent + n
          /\ midSplit' = (midSplit \/ ~OnBoundary(frames, sent + n))
          /\ LET b == buffer_next_chunk(buffer, TRUE, SubSeq(Wire, sent + 1, sent + n))
             IN  IF b = PanicBuf
                 THEN /\ pc' = "panicked"
                      /\ buffer' = b
                      /\ UNCHANGED <<results, buffered_message>>
                 ELSE \E consumed \in BOOLEAN : RunCall(pc, b, consumed)
    /\ UNCHANGED <<frames, tail, errs>>

\* The end of the stream answered by body.data() but not recorded in the buffer
PullEos_not_ending ==
    /\ pc \in {"recv", "peek"}
    /\ sent = Len(Wire)
    /\ RunCall(pc, buffer, TRUE)
    /\ UNCHANGED <<frames, tail, sent, errs, empties, midSplit>>

\* body.data() answers None.
PullEos ==
    /\ pc \in {"recv", "peek"}
    /\ sent = Len(Wire)
    /\ LET b == buffer_next_chunk(buffer, FALSE, <<>>)
       IN  IF b = PanicBuf
           THEN /\ pc' = "panicked"
                /\ buffer' = b
                /\ UNCHANGED <<results, buffered_message>>
           ELSE RunCall(pc, b, TRUE)
    /\ UNCHANGED <<frames, tail, sent, errs, empties, midSplit>>

\* A failed pull taken for the end of the stream instead of being returned
PullErr_as_eos ==
    /\ pc \in {"recv", "peek"}
    /\ errs < MaxErrs
    /\ errs' = errs + 1
    /\ RunCall(pc, ended(buffer), TRUE)
    /\ UNCHANGED <<frames, tail, sent, empties, midSplit>>

\* A failed pull returned after mem::replace has already taken the buffer
PullErr_after_replace ==
    /\ pc \in {"recv", "peek"}
    /\ errs < MaxErrs
    /\ errs' = errs + 1
    /\ Return(pc, DispatchFailure)
    /\ buffer' = EmptyBuf
    /\ UNCHANGED <<frames, tail, sent, empties, midSplit, buffered_message>>

\* body.data() answers Some(Err(e)): map_err(DispatchFailure) and `?`.
PullErr ==
    /\ pc \in {"recv", "peek"}
    /\ errs < MaxErrs
    /\ errs' = errs + 1
    /\ Return(pc, DispatchFailure)
    /\ UNCHANGED <<frames, tail, sent, empties, midSplit, buffer, buffered_message>>

\* The future dropped while it holds the buffer taken by mem::replace
Cancel_after_replace ==
    /\ pc \in {"recv", "peek"}
    /\ pc' = "idle"
    /\ buffer' = EmptyBuf
    /\ UNCHANGED <<frames, tail, sent, errs, empties, midSplit, buffered_message, results>>

\* The caller drops the future of the call while it awaits body.data().
Cancel ==
    /\ pc \in {"recv", "peek"}
    /\ pc' = "idle"
    /\ UNCHANGED <<frames, tail, sent, errs, empties, midSplit, buffer,
                   buffered_message, results>>

\* ------------------------------------------------------------ specification
FrameSeqs ==
    UNION {[1..n -> FrameKinds] : n \in 0..MaxFrames}

\* What may follow the last complete frame: nothing, the first bytes of a
\* frame that never completes, or bytes the decoder rejects.
Tails == {<<>>, <<4, 2>>, <<0, 0>>}

Init ==
    /\ \E fs \in FrameSeqs :
          frames = [i \in DOMAIN fs |-> [hdr |-> fs[i][1], kind |-> fs[i][2], id |-> i]]
    /\ tail \in Tails
    /\ sent = 0
    /\ errs = 0
    /\ empties = 0
    /\ midSplit = FALSE
    /\ buffer = EmptyBuf
    /\ buffered_message = NoMsg
    /\ pc = "idle"
    /\ results = <<>>

Next ==
    \/ Recv
    \/ TryRecvInitial
    \/ PullChunk
    \/ PullEos
    \/ PullErr
    \/ Cancel

Spec == Init /\ [][Next]_vars

\* body.data() answers the pull of the suspended call with a chunk or with
\* the end of the stream (it may fail the pull instead, it need not).
PullAnswered == PullChunk \/ PullEos

\* The Receiver with a caller that makes LiveCalls calls and drops none.
LiveNext ==
    \/ Len(results) < LiveCalls /\ Recv
    \/ Len(results) < LiveCalls /\ TryRecvInitial
    \/ PullChunk
    \/ PullEos
    \/ PullErr

\* The chunk source leaves no pull unanswered.
LiveSpec == Init /\ [][LiveNext]_vars /\ WF_vars(PullAnswered)

\* ------------------------------------------------------------------- claims
RecvOnly == \A i \in DOMAIN results : results[i].op = "recv"

\* try_recv_initial is called at most once, before any other call.
PeekFirstOnly == \A i \in DOMAIN results : results[i].op = "peek" => i = 1

AllEvents == \A i \in DOMAIN frames : frames[i].kind = "event"

\* The tail is the beginning of a frame that never completes.
Truncated == tail # <<>> /\ tail[1] \in {3, 4}

\* The tail is bytes no frame starts with.
Invalid == tail # <<>> /\ tail[1] \notin {3, 4}

IsNone(r) == r.t = "None"

IsEvent(r, m) == r.t = "Event" /\ r.ev = m.id

\* r is what recv() owes the caller for frame m.
IsResultOf(r, m) ==
    CASE m.kind = "event" -> IsEvent(r, m)
      [] m.kind = "error" ->
           r.t = "ServiceError" /\ r.raw.v = "Decoded" /\ r.raw.msg = m
      [] OTHER ->
           r.t = "ResponseError" /\ r.raw.v = "Decoded" /\ r.raw.msg = m

\* r hands frame m to the caller.
Delivers(r, m) ==
    \/ IsEvent(r, m)
    \/ r.raw.v = "Decoded" /\ r.raw.msg = m

\* The results from index i on are those of recv() calls that start with
\* frame k and meet no transport failure.
RecvFrom(i, k) ==
    \A j \in i..Len(results) :
       LET n == k + (j - i)
       IN  /\ n <= Len(frames) => IsResultOf(results[j].res, frames[n])
           /\ n > Len(frames) /\ tail = <<>> => IsNone(results[j].res)

\* C1: frames that all unmarshal to events, split into chunks anywhere
\* (mid-frame and zero-length chunks included) and followed by a clean end of
\* stream, come out of repeated recv() calls as exactly those events, in
\* order, each once, and then Ok(None).
C1_ExactRedelivery ==
    (tail = <<>> /\ AllEvents /\ errs = 0 /\ RecvOnly) =>
        \A i \in DOMAIN results :
           IF i <= Len(frames)
           THEN IsEvent(results[i].res, frames[i])
           ELSE IsNone(results[i].res)

C1_Witness ==
    /\ tail = <<>> /\ AllEvents /\ errs = 0 /\ RecvOnly
    /\ Len(frames) = 2 /\ Len(results) = 3
    /\ midSplit /\ empties >= 1
    /\ IsEvent(results[2].res, frames[2]) /\ IsNone(results[3].res)

\* C2 (first half): with a truncated stream, recv() does not return Ok(None)
\* before the unexpected end of stream has been returned as a ResponseError.
C2_ErrorNotNone ==
    Truncated =>
        \A i \in DOMAIN results :
           (results[i].op = "recv" /\ IsNone(results[i].res)) =>
               \E j \in 1..(i - 1) :
                  /\ results[j].res.t = "ResponseError"
                  /\ results[j].res.err = "UnexpectedEndOfStream"

\* C2 (second half): when the unexpected end of stream is returned, every
\* complete frame of the stream has been delivered by an earlier call.
C2_FramesDelivered ==
    \A i \in DOMAIN results :
       results[i].res.err = "UnexpectedEndOfStream" =>
           \A k \in DOMAIN frames :
              \E j \in 1..(i - 1) : Delivers(results[j].res, frames[k])

\* C2: a stream that ends inside a frame makes the call that discovers the
\* end return a ResponseError (unexpected end of stream), never Ok(None), and
\* by then every frame completed before the partial one has been delivered
\* (try_recv_initial being called at most once, first).
C2_TruncationDetection ==
    PeekFirstOnly => (C2_ErrorNotNone /\ C2_FramesDelivered)

\* Number of complete frames among the first n bytes of the wire.
RECURSIVE FramesWithin(_, _)
FramesWithin(ms, n) ==
    IF ms = <<>> \/ Len(Encode(Head(ms))) > n THEN 0
    ELSE 1 + FramesWithin(Tail(ms), n - Len(Encode(Head(ms))))

\* C3: when the chunk source has delivered chunks holding N complete frames
\* (all events) and fails the next pull, the first N recv() calls have
\* returned the N events and the call that meets the failure, the (N+1)-th,
\* returns DispatchFailure.
C3_TransportError ==
    [][ LET N == FramesWithin(frames, sent)
        IN  ( /\ pc = "recv" /\ errs = 0 /\ errs' = 1
              /\ RecvOnly
              /\ \A i \in 1..N : frames[i].kind = "event"
              /\ ~(Invalid /\ sent > Len(EncodeAll(frames))) )
            =>
            ( /\ Len(results) = N
              /\ \A i \in 1..N : IsEvent(results[i].res, frames[i])
              /\ Len(results') = N + 1
              /\ SubSeq(results', 1, N) = results
              /\ results'[N + 1].op = "recv"
              /\ results'[N + 1].res.t = "DispatchFailure" )
      ]_vars

C3_Witness ==
    /\ RecvOnly /\ errs = 1 /\ Len(results) = 3 /\ pc = "idle"
    /\ IsEvent(results[1].res, frames[1])
    /\ IsEvent(results[2].res, frames[2])
    /\ results[3].res.t = "DispatchFailure"

\* C4: try_recv_initial() on a fresh Receiver whose first frame is a typed
\* event other than initial-response returns Ok(None), keeps the frame as the
\* pending peeked frame, and the very next recv() returns that frame.
C4_PeekBuffersTypedEvent ==
    ( /\ Len(frames) >= 1 /\ frames[1].hdr = "other"
      /\ Len(results) >= 1 /\ results[1].op = "peek"
      /\ results[1].res.t # "DispatchFailure" )
    =>
    ( /\ IsNone(results[1].res)
      /\ (Len(results) = 1 => buffered_message = frames[1])
      /\ ((Len(results) >= 2 /\ results[2].op = "recv"
              /\ results[2].res.t # "DispatchFailure")
            => IsResultOf(results[2].res, frames[1])) )

\* C5: when the first frame is an initial-response, try_recv_initial() on a
\* fresh Receiver returns Ok(Some(that frame)) and leaves no peeked frame
\* pending, and the recv() calls that follow return the frames after it, in
\* order, starting with the second frame.
C5_PeekInitial ==
    ( /\ Len(frames) >= 1 /\ frames[1].hdr = "initial"
      /\ Len(results) >= 1 /\ results[1].op = "peek"
      /\ PeekFirstOnly /\ errs = 0 )
    =>
    ( /\ results[1].res.t = "Message"
      /\ results[1].res.raw.msg = frames[1]
      /\ buffered_message = NoMsg
      /\ RecvFrom(2, 2) )

C5_Witness ==
    /\ Len(frames) = 2 /\ frames[1].hdr = "initial"
    /\ Len(results) = 3 /\ results[1].op = "peek"
    /\ PeekFirstOnly /\ errs = 0 /\ tail = <<>>
    /\ results[1].res.t = "Message"
    /\ IsResultOf(results[2].res, frames[2])
    /\ IsNone(results[3].res)

\* C6: when the first frame has no :event-type header, try_recv_initial() on
\* a fresh Receiver returns Ok(None) and keeps the frame pending, and the
\* recv() calls that follow return the whole stream in order starting with
\* that first frame: the peek neither skips nor duplicates a frame.
C6_PeekUntyped ==
    ( /\ Len(frames) >= 1 /\ frames[1].hdr = "none"
      /\ Len(results) >= 1 /\ results[1].op = "peek"
      /\ PeekFirstOnly /\ errs = 0 )
    =>
    ( /\ IsNone(results[1].res)
      /\ buffered_message = (IF Len(results) = 1 THEN frames[1] ELSE NoMsg)
      /\ RecvFrom(2, 1) )

C6_Witness ==
    /\ Len(frames) = 2 /\ frames[1].hdr = "none"
    /\ Len(results) = 3 /\ results[1].op = "peek"
    /\ PeekFirstOnly /\ errs = 0
    /\ IsNone(results[1].res)
    /\ IsResultOf(results[2].res, frames[1])
    /\ IsResultOf(results[3].res, frames[2])

\* The unread bytes begin with a complete frame.
HoldsFrame(b) ==
    /\ b.data # <<>>
    /\ b.data[1] \in {3, 4}
    /\ Len(b.data) >= b.data[1]

FirstFrame(b) == ParseFrame(SubSeq(b.data, 1, b.data[1]))

AfterFirstFrame(b) == SubSeq(b.data, b.data[1] + 1, Len(b.data))

\* The step is the start of a call.
CallStarts == pc = "idle" /\ (pc' # "idle" \/ results' # results)

\* The step is the whole of a call of `op` that returns without a pull.
ReturnsUnpulled(op) ==
    /\ pc' = "idle"
    /\ sent' = sent /\ errs' = errs /\ empties' = empties
    /\ Len(results') = Len(results) + 1
    /\ SubSeq(results', 1, Len(results)) = results
    /\ results'[Len(results')].op = op

LastRes == results'[Len(results')].res

\* C7 as stated: a call that starts while the buffer holds a complete frame
\* (stream not ended) decodes that frame and returns it without a pull.
C7_DecodeBeforePull ==
    [][ (CallStarts /\ ~is_eos(buffer) /\ HoldsFrame(buffer)) =>
          /\ buffer' = [buffer EXCEPT !.data = AfterFirstFrame(buffer)]
          /\ \/ ReturnsUnpulled("peek")
             \/ ReturnsUnpulled("recv") /\ IsResultOf(LastRes, FirstFrame(buffer))
      ]_vars

\* C7 amended: a call that starts while the buffer holds a complete frame
\* (stream not ended) returns without a pull; try_recv_initial(), and recv()
\* with no peeked frame pending, decode that frame, and recv() returns it;
\* recv() with a peeked frame pending returns the peeked frame and leaves
\* the buffer as it is.
C7_DecodeBeforePullUnlessPending ==
    [][ (CallStarts /\ ~is_eos(buffer) /\ HoldsFrame(buffer)) =>
          \/ /\ ReturnsUnpulled("peek")
             /\ buffer' = [buffer EXCEPT !.data = AfterFirstFrame(buffer)]
          \/ /\ buffered_message = NoMsg
             /\ ReturnsUnpulled("recv")
             /\ IsResultOf(LastRes, FirstFrame(buffer))
             /\ buffer' = [buffer EXCEPT !.data = AfterFirstFrame(buffer)]
          \/ /\ buffered_message # NoMsg
             /\ ReturnsUnpulled("recv")
             /\ IsResultOf(LastRes, buffered_message)
             /\ buffer' = buffer
      ]_vars

\* One chunk brought both frames: the first recv() returned the first frame
\* and left the second complete in the buffer, where the next call finds it.
C7_Witness ==
    /\ Len(frames) = 2 /\ errs = 0
    /\ Len(results) = 1 /\ pc = "idle"
    /\ results[1].op = "recv" /\ IsResultOf(results[1].res, frames[1])
    /\ ~is_eos(buffer) /\ HoldsFrame(buffer) /\ FirstFrame(buffer) = frames[2]
    /\ buffered_message = NoMsg

\* recv() has returned Ok(None).
RecvReturnedNone ==
    \E i \in DOMAIN results : results[i].op = "recv" /\ IsNone(results[i].res)

\* C8: once a recv() call has returned Ok(None), every later recv() call
\* returns Ok(None) too, and without a pull from the chunk source.
C8_TerminalIdempotent ==
    [][ ( /\ RecvReturnedNone
          /\ CallStarts
          /\ (pc' = "recv" \/ (results' # results /\ results'[Len(results')].op = "recv")) )
        =>
        ( ReturnsUnpulled("recv") /\ IsNone(LastRes) /\ buffer' = buffer )
      ]_vars

C8_Witness ==
    /\ Len(results) >= 3 /\ pc = "idle"
    /\ results[Len(results) - 1].op = "recv" /\ IsNone(results[Len(results) - 1].res)
    /\ results[Len(results)].op = "recv" /\ IsNone(results[Len(results)].res)
    /\ IsEvent(results[1].res, frames[1])

\* C9: a recv() that fails with ServiceError for frame k leaves the Receiver
\* usable: the recv() calls after it return the results for frames k+1,
\* k+2, ... in order, as after an ordinary event (try_recv_initial being
\* called at most once, first, and the chunk source not failing).
C9_ServiceErrorNotFatal ==
    (PeekFirstOnly /\ errs = 0) =>
        \A i \in DOMAIN results :
           (results[i].op = "recv" /\ results[i].res.t = "ServiceError") =>
               /\ results[i].res.raw.v = "Decoded"
               /\ RecvFrom(i + 1, results[i].res.raw.msg.id + 1)

C9_Witness ==
    /\ PeekFirstOnly /\ errs = 0 /\ Len(results) = 3 /\ Len(frames) = 2
    /\ results[1].op = "recv" /\ results[1].res.t = "ServiceError"
    /\ results[1].res.raw.msg = frames[1]
    /\ IsEvent(results[2].res, frames[2])
    /\ IsNone(results[3].res)
    /\ midSplit

\* C10: recv() returns Ok(None) only into a state where the stream has
\* ended, the buffer holds no unread byte and no peeked frame is pending;
\* and a recv() called in such a state returns Ok(None), not an error.
C10_NoneIffCleanEnd ==
    [][ /\ ( /\ results' # results
              /\ results'[Len(results')].op = "recv"
              /\ IsNone(LastRes) )
            =>
            ( is_eos(buffer') /\ buffer'.data = <<>> /\ buffered_message' = NoMsg )
        /\ ( /\ CallStarts
              /\ is_eos(buffer) /\ buffer.data = <<>> /\ buffered_message = NoMsg
              /\ (pc' = "recv" \/ (results' # results /\ results'[Len(results')].op = "recv")) )
            =>
            ( ReturnsUnpulled("recv") /\ IsNone(LastRes) )
      ]_vars

C10_Witness ==
    /\ Len(results) >= 2 /\ pc = "idle"
    /\ results[Len(results)].op = "recv" /\ IsNone(results[Len(results)].res)
    /\ is_eos(buffer) /\ buffer.data = <<>> /\ buffered_message = NoMsg
    /\ Truncated
    /\ results[Len(results) - 1].res.err = "UnexpectedEndOfStream"

\* The step delivers a zero-length chunk when every byte of the wire has been
\* delivered: the last chunk before the end of the stream.
TrailingEmptyChunk ==
    /\ pc \in {"recv", "peek"}
    /\ sent = Len(Wire) /\ sent' = sent
    /\ empties' = empties + 1

\* C11: a zero-length chunk delivered as the last chunk before the end of
\* the stream changes no result of recv(): the call that receives it returns
\* nothing for it and keeps waiting with the same unread bytes, the stream
\* not ended; and whether or not such a chunk came, the events returned so
\* far are the frames in order, and the answer that follows is Ok(None), not
\* an error.
C11_TrailingEmptyChunk ==
    [][ /\ (TrailingEmptyChunk /\ pc = "recv") =>
              /\ pc' = "recv"
              /\ results' = results
              /\ buffer'.data = buffer.data
              /\ ~is_eos(buffer')
              /\ buffered_message' = buffered_message
        /\ ( /\ pc = "recv" /\ sent = Len(Wire) /\ tail = <<>>
              /\ AllEvents /\ RecvOnly /\ errs' = 0
              /\ results' # results )
            =>
            ( /\ Len(results) = Len(frames)
              /\ \A i \in DOMAIN results : IsEvent(results[i].res, frames[i])
              /\ results' = Append(results, Entry("recv", OkNone))
              /\ is_eos(buffer') )
      ]_vars

\* Both frames came in one chunk and were returned, a zero-length chunk
\* followed, and the third recv() returned Ok(None) at the end of the stream.
C11_Witness ==
    /\ tail = <<>> /\ AllEvents /\ RecvOnly /\ errs = 0
    /\ Len(frames) = 2 /\ sent = Len(Wire)
    /\ empties = 1 /\ ~midSplit
    /\ Len(results) = 3 /\ pc = "idle"
    /\ IsEvent(results[1].res, frames[1])
    /\ IsEvent(results[2].res, frames[2])
    /\ IsNone(results[3].res)

\* The step is a recv() call returning, with no failed pull in the step.
RecvReturns ==
    /\ pc \in {"idle", "recv"} /\ pc' = "idle"
    /\ errs' = errs
    /\ Len(results') = Len(results) + 1
    /\ SubSeq(results', 1, Len(results)) = results
    /\ results'[Len(results')].op = "recv"

\* The unread bytes the Receiver has once the chunk of this step is added.
BytesInStep == [tag |-> buffer.tag, data |-> buffer.data \o SubSeq(Wire, sent + 1, sent')]

\* r is what the unmarshaller's outcome for frame m prescribes.
Classified(r, m) ==
    CASE UnmarshallerOutcome(m) = "Event" -> r = OkEvent(m)
      [] UnmarshallerOutcome(m) = "Error" ->
           r.t = "ServiceError" /\ r.err = "Modeled" /\ r.raw = RawDecoded(m)
      [] OTHER ->
           r.t = "ResponseError" /\ r.raw = RawDecoded(m)

\* C12: whenever recv() hands a decoded frame to the unmarshaller (the
\* pending peeked frame, or else the frame it decodes from the unread bytes),
\* its result follows from the unmarshaller's outcome alone: the event, or
\* ServiceError with the modeled error and the frame as RawMessage::Decoded,
\* or ResponseError with the frame as RawMessage::Decoded.
C12_Classification ==
    [][ /\ (RecvReturns /\ pc = "idle" /\ buffered_message # NoMsg) =>
              Classified(LastRes, buffered_message)
        /\ ( /\ RecvReturns
              /\ ~(pc = "idle" /\ buffered_message # NoMsg)
              /\ ~is_eos(buffer) /\ HoldsFrame(BytesInStep) )
            =>
            Classified(LastRes, FirstFrame(BytesInStep))
      ]_vars

\* recv() has returned a ServiceError for a modeled-error frame and a
\* ResponseError for a frame the unmarshaller could not read.
C12_Witness ==
    /\ Len(frames) = 2 /\ Len(results) = 2 /\ RecvOnly
    /\ UnmarshallerOutcome(frames[1]) = "Error"
    /\ UnmarshallerOutcome(frames[2]) = "Err"
    /\ results[1].res.t = "ServiceError" /\ results[1].res.raw = RawDecoded(frames[1])
    /\ results[2].res.t = "ResponseError" /\ results[2].res.raw = RawDecoded(frames[2])

\* In this step a call hands the frame decoder unread bytes that it rejects.
DecoderRejects ==
    /\ ~is_eos(buffer) /\ errs' = errs
    /\ BytesInStep.data # <<>> /\ BytesInStep.data[1] \notin {3, 4}
    /\ Len(results') = Len(results) + 1
    /\ ~(pc = "idle" /\ buffered_message # NoMsg /\ results'[Len(results')].op = "recv")

\* C13: when the frame decoder rejects the unread bytes, the call returns a
\* ResponseError whose raw message is the Invalid variant with the bytes that
\* remain in the buffer, and with no bytes only when the decoder consumed
\* them; the results of earlier calls stay as they were.
C13_InvalidFrame ==
    [][ DecoderRejects =>
          /\ LastRes.t = "ResponseError"
          /\ \/ LastRes.raw = RawInvalidSome(BytesInStep.data)
             \/ LastRes.raw = RawInvalidNone /\ buffer'.data = <<>>
          /\ SubSeq(results', 1, Len(results)) = results
      ]_vars

\* How far the buffer state is on the way Empty, Partial, EosPartial.
Rank(b) ==
    CASE b.tag = "Empty" -> 0
      [] b.tag = "Partial" -> 1
      [] b.tag = "EosPartial" -> 2
      [] OTHER -> -1

\* C14: between calls and at every suspension at the chunk pull, the buffer
\* state only moves forward along Empty, Partial, EosPartial (Partial may be
\* skipped): it never goes back to Empty and never leaves EosPartial.
C14_BufferMonotone ==
    [][ Rank(buffer) >= 0 /\ Rank(buffer') >= Rank(buffer) ]_vars

\* The buffer has gone from Empty through Partial to EosPartial over a
\* try_recv_initial() and two recv() calls.
C14_Witness ==
    /\ is_eos(buffer) /\ sent > 0 /\ empties = 1
    /\ Len(results) = 3 /\ pc = "idle"
    /\ results[1].op = "peek" /\ results[2].op = "recv" /\ results[3].op = "recv"

\* C15: whatever the calls and whatever the chunk source answers (chunks,
\* zero-length chunks, failures, end of stream, answers to pulls made after
\* a failure), no call panics: buffered() is never reached on Empty, and a
\* pull is only ever awaited while the stream has not ended, so with_partial()
\* and ended() are never called on EosPartial.
C15_NoPanic ==
    /\ pc # "panicked"
    /\ buffer.tag \in {"Empty", "Partial", "EosPartial"}
    /\ (pc \in {"recv", "peek"} => ~is_eos(buffer))

\* A pull failed in the first call, later pulls brought bytes, a zero-length
\* chunk and the end of the stream, over try_recv_initial() and recv() calls.
C15_Witness ==
    /\ Len(results) = 3 /\ pc = "idle"
    /\ results[1].res.t = "DispatchFailure"
    /\ \E i, j \in 2..3 : results[i].op = "peek" /\ results[j].op = "recv"
    /\ sent > 0 /\ empties = 1 /\ is_eos(buffer)

\* The step is the start of a recv() call.
RecvStarts ==
    /\ CallStarts
    /\ (pc' = "recv" \/ (results' # results /\ results'[Len(results')].op = "recv"))

\* No frame has been returned by two recv() calls.
NoFrameTwice ==
    \A i, j \in DOMAIN results :
       ( /\ i < j /\ results[i].op = "recv" /\ results[j].op = "recv"
         /\ results[i].res.t \in {"Event", "ServiceError", "ResponseError"} )
       => \A k \in DOMAIN frames :
             ~(Delivers(results[i].res, frames[k]) /\ Delivers(results[j].res, frames[k]))

\* C16: a recv() that starts while a peeked frame is pending returns the
\* unmarshalling result of that frame in the same step, without a pull and
\* without a decode (the buffer is left as it is), and clears the pending
\* slot; no frame is returned by two recv() calls.
C16_PendingConsumedOnce ==
    [][ /\ (RecvStarts /\ buffered_message # NoMsg) =>
              /\ ReturnsUnpulled("recv")
              /\ Classified(LastRes, buffered_message)
              /\ buffer' = buffer
              /\ buffered_message' = NoMsg
        /\ NoFrameTwice'
      ]_vars

\* try_recv_initial() kept the untyped first frame, the first recv() returned
\* it and left the second frame undecoded in the buffer, the second recv()
\* returned the second frame.
C16_Witness ==
    /\ Len(frames) = 2 /\ frames[1].hdr = "none"
    /\ Len(results) = 3 /\ pc = "idle"
    /\ results[1].op = "peek" /\ IsNone(results[1].res)
    /\ results[2].op = "recv" /\ Classified(results[2].res, frames[1])
    /\ results[3].op = "recv" /\ Classified(results[3].res, frames[2])
    /\ buffered_message = NoMsg

\* C17: when a pull fails, the suspended call returns the failure in that
\* step, without another pull, and the buffer (variant, unread bytes) and the
\* pending peeked frame are what they were before the failed pull; the
\* failure is returned as DispatchFailure by the call that was waiting.
C17_NoRetryNoChange ==
    [][ (pc \in {"recv", "peek"} /\ errs' = errs + 1) =>
          /\ pc' = "idle"
          /\ results' = Append(results, Entry(pc, DispatchFailure))
          /\ sent' = sent /\ empties' = empties
          /\ buffer' = buffer
          /\ buffered_message' = buffered_message
      ]_vars

\* The pull of a second try_recv_initial() failed while the buffer held the
\* first bytes of a frame and the frame peeked by the first was pending.
C17_Witness ==
    /\ errs = 1 /\ pc = "idle" /\ Len(results) = 2
    /\ results[1].op = "peek" /\ IsNone(results[1].res)
    /\ results[2].op = "peek" /\ results[2].res = DispatchFailure
    /\ buffered_message # NoMsg
    /\ buffer.tag = "Partial" /\ buffer.data # <<>>

\* The step drops a call suspended at the chunk pull.
CallDropped == pc \in {"recv", "peek"} /\ pc' = "idle" /\ results' = results

\* C18: dropping a call while it awaits the chunk pull leaves the buffer and
\* the pending peeked frame as they were when the pull started, and the
\* dropped call holds no decoded frame: with only recv() calls and no failed
\* pull, the calls that return, before and after any cancellation, return the
\* frames of the stream in order with none missing.
C18_CancelLosesNothing ==
    [][ /\ CallDropped =>
              /\ buffer' = buffer
              /\ buffered_message' = buffered_message
              /\ sent' = sent
        /\ ((RecvOnly /\ errs = 0) => RecvFrom(1, 1))'
      ]_vars

\* No call has returned, yet the buffer holds the first bytes of a frame:
\* the call that pulled them was dropped while waiting for more.
C18_Witness ==
    /\ results = <<>> /\ pc = "idle" /\ errs = 0
    /\ buffer.tag = "Partial" /\ buffer.data # <<>>
    /\ Len(frames) = 2 /\ midSplit
    /\ buffer.data = SubSeq(Wire, 1, sent)

\* C19: a pending peeked frame stays pending until a recv() returns it: no
\* step, and in particular no try_recv_initial() made while it is pending,
\* replaces or drops it.
C19_PendingNeverLost ==
    [][ buffered_message # NoMsg =>
          \/ buffered_message' = buffered_message
          \/ /\ buffered_message' = NoMsg
             /\ ReturnsUnpulled("recv")
             /\ Classified(LastRes, buffered_message)
      ]_vars

\* The results that report an unexpected end of stream.
TruncationReports ==
    {i \in DOMAIN results : results[i].res.err = "UnexpectedEndOfStream"}

PullStep == pc \in {"recv", "peek"} /\ ~CallDropped

\* Bytes and zero-length chunks the chunk source has still to deliver, at most.
Undelivered == (Len(Wire) - sent) + (MaxEmpty - empties)

\* C21: with a chunk source that delivers finitely many chunks and then the
\* end of the stream or a failure, and answers every pull, every call of
\* recv() and try_recv_initial() that is not dropped returns; each answer to
\* a pull either makes the call return or is one chunk taken from what the
\* source had left, after which the call waits for exactly one more pull, so
\* a call makes at most one pull more than the chunks still undelivered.
C21_CallsTerminate ==
    /\ (pc \in {"recv", "peek"}) ~> (pc = "idle")
    /\ [][ PullStep =>
             \/ /\ pc' = "idle"
                /\ Len(results') = Len(results) + 1
                /\ results'[Len(results')].op = pc
             \/ /\ pc' = pc /\ results' = results /\ errs' = errs
                /\ Undelivered' < Undelivered
                /\ \/ sent' > sent /\ empties' = empties
                   \/ sent' = sent /\ empties' = empties + 1
         ]_vars

\* A recv() that waited through a zero-length chunk and a chunk ending inside
\* a frame has returned the frame once its last bytes came.
C21_Witness ==
    /\ Len(results) = 1 /\ pc = "idle" /\ errs = 0
    /\ results[1].op = "recv" /\ Len(frames) >= 1
    /\ Classified(results[1].res, frames[1])
    /\ midSplit /\ empties = 1

====
